---- MODULE Spec2Model ----
(***************************************************************************)
(* The control core of a turtlebot agent (RobotWorld.Brain): perception,   *)
(* change detection with hysteresis, the impulse counter, the safety       *)
(* override, and the blocking consultation of the DALI reasoning engine    *)
(* over the shared redis topic "fromMAS".                                  *)
(*                                                                         *)
(* Depths are fixed-point values in hundredths (0.17 is 17, 0.02 is 2).    *)
(* Text is a sequence of one-character strings.  A python value that may   *)
(* be None is a sequence of length 0 (None) or 1 (the value).              *)
(***************************************************************************)
EXTENDS Integers, Sequences, FiniteSets

VARIABLES
    state,            \* Brain._state: <<>> is None, else <<CanonicalState>>
    dali_depth,       \* Brain._dali_depth: <<>> is the initial "", else <<depth>>
    no_dali_count,    \* Brain._no_dali_count
    previous_action,  \* Brain._previous_action: <<>> is None, else <<text>>
    sub,              \* Brain._sub: items delivered on the topic, not yet read
    pc,               \* where think is: "idle" (not running) or "listen" (blocked in decision)
    via,              \* who called the running decision: "think" or "ground"
    action,           \* what the current or last think returned: <<>> is nothing (yet) or None
    log,              \* what the current or last think did to its collaborators, in order
    outcome,          \* the current or last think: "none", "running", "consulted", "replayed", "raised"
    replays,          \* consecutive replay cycles since the last consultation
    last_reply,       \* the reply of the most recent completed consultation
    consult_depth,    \* the depth of the state of the most recent consultation
    skipped,          \* whether the current or last consultation discarded another agent's frame
    faulted,          \* whether a think has ended in an error so far
    call,             \* a function of the program applied on its own: its name, arguments, result
    relay,            \* the relay script Redis2LINDA.py: its subscription, what it sent, where it is
    agents            \* several Brains on the one topic: their subscriptions and consultations

vars == <<state, dali_depth, no_dali_count, previous_action, sub, pc, via,
          action, log, outcome, replays, last_reply, consult_depth, skipped,
          faulted, call, relay, agents>>

\* what a step of one Brain leaves alone
others == <<call, relay, agents>>

(***************************************************************************)
(* Program constants.                                                      *)
(***************************************************************************)
DepthThreshold == 17

Hysteresis == 2

ImpulseLimit == 5

Port == 1

(***************************************************************************)
(* Bounds of the model.                                                    *)
(***************************************************************************)
DepthSpan == 3

MaxSub == 2

Depths == DepthThreshold..(DepthThreshold + DepthSpan)

(***************************************************************************)
(* Sensor readings, as World.sense builds them.  get_vision gives the      *)
(* position NONE whenever the colour is NONE.                              *)
(***************************************************************************)
Visions == {<<"NONE", "NONE">>, <<"RED", "NEAR">>, <<"RED", "CENTER">>}

Loads == {"EMPTY", "FULL"}

Readings == [vision : Visions, depth : Depths, load : Loads]

\* the readings of a unit that stands still in front of a red cube
StillReadings == [vision : {<<"RED", "CENTER">>}, depth : DepthThreshold..(DepthThreshold + 1), load : {"EMPTY"}]

\* str.lower() on the tokens the sensors produce
Lower(s) ==
    CASE s = "NONE" -> "none"
      [] s = "RED" -> "red"
      [] s = "NEAR" -> "near"
      [] s = "CENTER" -> "center"
      [] s = "EMPTY" -> "empty"
      [] s = "FULL" -> "full"
      [] OTHER -> s

Abs(x) == IF x < 0 THEN -x ELSE x

(***************************************************************************)
(* Text: str.index(':'), slices and int().                                 *)
(***************************************************************************)
Digits == <<"0", "1", "2", "3", "4", "5", "6", "7", "8", "9">>

DigitValue(c) == (CHOOSE i \in 1..Len(Digits) : Digits[i] = c) - 1

IsDigit(c) == \E i \in 1..Len(Digits) : Digits[i] = c

HasColon(msg) == \E i \in 1..Len(msg) : msg[i] = ":"

\* msg.index(':'), as a 1-based position; only used when HasColon(msg)
IndexColon(msg) == CHOOSE i \in 1..Len(msg) : msg[i] = ":" /\ \A j \in 1..(i - 1) : msg[j] # ":"

\* msg[:separator]
Before(msg) == SubSeq(msg, 1, IndexColon(msg) - 1)

\* msg[separator+1:]
After(msg) == SubSeq(msg, IndexColon(msg) + 1, Len(msg))

\* whether int(s) succeeds (the texts here hold no sign, blank or underscore)
IsInt(s) == Len(s) > 0 /\ \A i \in 1..Len(s) : IsDigit(s[i])

RECURSIVE IntOf(_)
IntOf(s) == IF s = <<>> THEN 0 ELSE 10 * IntOf(SubSeq(s, 1, Len(s) - 1)) + DigitValue(s[Len(s)])

\* str(n), for n >= 0
RECURSIVE Str(_)
Str(n) == IF n < 10 THEN <<Digits[n + 1]>> ELSE Str(n \div 10) \o <<Digits[(n % 10) + 1]>>

(***************************************************************************)
(* What arrives on the topic.  The first item listen() yields is the       *)
(* confirmation of the subscription made in __init__.  After it: replies   *)
(* to this agent, a reply to another agent, and frames that are no         *)
(* "<id>:<action>".                                                        *)
(***************************************************************************)
Notice == [type |-> "subscribe", data |-> <<>>]

FrameStop == <<"1", ":", "s", "t", "o", "p">>

FrameGo == <<"1", ":", "g", "o", ":", "2">>

FrameOther == <<"1", "2", ":", "l", "e", "f", "t", ":", "9">>

FrameNoColon == <<"s", "t", "o", "p">>

FrameNoInt == <<"x", ":", "g", "o", ":", "2">>

Frames == {FrameStop, FrameGo, FrameOther, FrameNoColon, FrameNoInt}

Items == [type : {"message"}, data : Frames]

\* the traffic of a reasoning engine that answers with one action and of one other agent
PlainItems == [type : {"message"}, data : {FrameStop, FrameOther, FrameNoColon}]

(***************************************************************************)
(* Brain.perception and Brain.compare_states                               *)
(***************************************************************************)
new_state(reading) ==
    [color |-> Lower(reading.vision[1]),
     position |-> Lower(reading.vision[2]),
     depth |-> reading.depth,
     load |-> Lower(reading.load)]

\* compare_states forgetting the load
compare_states_no_load(old_state, new, ref) ==
    \/ old_state.color # new.color
    \/ old_state.position # new.position
    \/ Abs(new.depth - ref) >= Hysteresis

\* compare_states missing a difference of exactly the hysteresis
compare_states_strict(old_state, new, ref) ==
    \/ old_state.color # new.color
    \/ old_state.position # new.position
    \/ old_state.load # new.load
    \/ Abs(new.depth - ref) > Hysteresis

compare_states(old_state, new, ref) ==
    \/ old_state.color # new.color
    \/ old_state.position # new.position
    \/ old_state.load # new.load
    \/ Abs(new.depth - ref) >= Hysteresis

\* the `changed` perception returns
\* perception without the first-iteration branch
perception_not_first(reading) ==
    IF state = <<>>
    THEN FALSE
    ELSE compare_states(state[1], new_state(reading), dali_depth[1])

perception(reading) ==
    IF state = <<>> THEN TRUE
    ELSE compare_states(state[1], new_state(reading), dali_depth[1])

(***************************************************************************)
(* Brain.decision, up to the blocking listen                               *)
(***************************************************************************)
AgentName == <<"t", "u", "r", "t", "l", "e", "b", "o", "t", "_">> \o Str(Port)

\* the class of the depth alone
depth_class_by_depth(s) == IF s.depth <= DepthThreshold THEN "near" ELSE "far"

depth_class(s) == IF s.depth <= DepthThreshold \/ s.position = "near" THEN "near" ELSE "far"

\* the message with the depth fact ahead of the vision fact
message_depth_first(s) ==
    << <<"dynamic">>,
       <<"depth", depth_class(s)>>,
       <<"vision", s.color, s.position>>,
       <<"load", s.load>>,
       <<"agentname">> \o Str(Port) \o <<":">> >>

message(s) ==
    << <<"dynamic">>,
       <<"vision", s.color, s.position>>,
       <<"depth", depth_class(s)>>,
       <<"load", s.load>>,
       <<"agentname">> \o Str(Port) \o <<":">> >>

\* the effect of publish("LINDAchannel", agent_name + ':' + message), kept as
\* the state the message is built from: the frame is AgentName, ':', message(s)
Publish(s) == <<"publish", s>>

\* the effect of self._world.act('stop')
Stop == <<"act", "stop">>

\* the test of the counter, one replay late
OverflowLate(n) == n > ImpulseLimit + 1

\* think's test of the counter
Overflow(n) == n > ImpulseLimit

\* the test of the depth, missing the threshold itself
NearStrict(s) == s.depth < DepthThreshold

\* ground_decision's test of the depth
Near(s) == s.depth <= DepthThreshold

Published(l) == \E i \in 1..Len(l) : l[i][1] = "publish"

(***************************************************************************)
(* Initial state: Brain.__init__                                           *)
(***************************************************************************)
BrainInit ==
    /\ state = <<>>
    /\ dali_depth = <<>>
    /\ no_dali_count = 0
    /\ previous_action = <<>>
    /\ sub = <<Notice>>
    /\ pc = "idle"
    /\ via = "think"
    /\ action = <<>>
    /\ log = <<>>
    /\ outcome = "none"
    /\ replays = 0
    /\ last_reply = <<>>
    /\ consult_depth = <<>>
    /\ skipped = FALSE
    /\ faulted = FALSE

\* nothing applied on its own, no relay, no other Brain
NoCall == [fn |-> "none", args |-> <<>>, out |-> <<>>]

NoRelay == [pc |-> "off", channel |-> <<>>, sent |-> <<>>]

NoAgents == <<>>

Init ==
    /\ BrainInit
    /\ call = NoCall
    /\ relay = NoRelay
    /\ agents = NoAgents

(***************************************************************************)
(* Brain.think, first branch: the world changed or the counter overflowed. *)
(* Stops the unit, resets the counter and enters decision, which publishes *)
(* the facts and blocks on the subscription.                               *)
(***************************************************************************)
ThinkConsult(reading) ==
    /\ pc = "idle"
    /\ (perception(reading) \/ Overflow(no_dali_count))
    /\ state' = <<new_state(reading)>>
    /\ no_dali_count' = 0
    /\ dali_depth' = <<reading.depth>>
    /\ log' = <<Stop, Publish(new_state(reading))>>
    /\ via' = "think"
    /\ pc' = "listen"
    /\ action' = <<>>
    /\ outcome' = "running"
    /\ replays' = 0
    /\ consult_depth' = <<reading.depth>>
    /\ skipped' = FALSE
    /\ UNCHANGED <<previous_action, sub, last_reply, faulted>>
    /\ UNCHANGED others

(***************************************************************************)
(* Brain.think, second branch, ground_decision finding the unit near       *)
(* something: enters decision from ground_decision.                        *)
(***************************************************************************)
ThinkGroundConsult(reading) ==
    /\ pc = "idle"
    /\ ~(perception(reading) \/ Overflow(no_dali_count))
    /\ Near(new_state(reading))
    /\ state' = <<new_state(reading)>>
    /\ dali_depth' = <<reading.depth>>
    /\ log' = <<Publish(new_state(reading))>>
    /\ via' = "ground"
    /\ pc' = "listen"
    /\ action' = <<>>
    /\ outcome' = "running"
    /\ replays' = 0
    /\ consult_depth' = <<reading.depth>>
    /\ skipped' = FALSE
    /\ UNCHANGED <<no_dali_count, previous_action, sub, last_reply, faulted>>
    /\ UNCHANGED others

\* a replay that moves the reference depth along with the state
ThinkReplayTracking(reading) ==
    /\ pc = "idle"
    /\ ~(perception(reading) \/ Overflow(no_dali_count))
    /\ ~Near(new_state(reading))
    /\ state' = <<new_state(reading)>>
    /\ no_dali_count' = no_dali_count + 1
    /\ action' = previous_action
    /\ outcome' = "replayed"
    /\ log' = <<>>
    /\ replays' = replays + 1
    /\ skipped' = FALSE
    /\ dali_depth' = <<reading.depth>>
    /\ UNCHANGED <<previous_action, sub, pc, via, last_reply, consult_depth, faulted>>
    /\ UNCHANGED others

(***************************************************************************)
(* Brain.think, second branch, ground_decision repeating the previous      *)
(* action.                                                                 *)
(***************************************************************************)
ThinkReplay(reading) ==
    /\ pc = "idle"
    /\ ~(perception(reading) \/ Overflow(no_dali_count))
    /\ ~Near(new_state(reading))
    /\ state' = <<new_state(reading)>>
    /\ no_dali_count' = no_dali_count + 1
    /\ action' = previous_action
    /\ outcome' = "replayed"
    /\ log' = <<>>
    /\ replays' = replays + 1
    /\ skipped' = FALSE
    /\ UNCHANGED <<dali_depth, previous_action, sub, pc, via, last_reply, consult_depth, faulted>>
    /\ UNCHANGED others

Think(reading) == ThinkConsult(reading) \/ ThinkGroundConsult(reading) \/ ThinkReplay(reading)

(***************************************************************************)
(* Brain.decision, the loop over self._sub.listen(): one item per step.    *)
(***************************************************************************)
Listening == pc = "listen" /\ sub # <<>>

\* item['type'] == 'message' fails: the item is passed over
ReceiveNotice ==
    /\ Listening
    /\ Head(sub).type # "message"
    /\ sub' = Tail(sub)
    /\ UNCHANGED <<state, dali_depth, no_dali_count, previous_action, pc, via,
                   action, log, outcome, replays, last_reply, consult_depth, skipped, faulted>>
    /\ UNCHANGED others

\* msg.index(':') or int(msg[:separator]) raises ValueError
Raises(msg) == IF HasColon(msg) THEN ~IsInt(Before(msg)) ELSE TRUE

\* the ValueError leaves decision, ground_decision and think
ReceiveRaise ==
    /\ Listening
    /\ Head(sub).type = "message"
    /\ Raises(Head(sub).data)
    /\ sub' = Tail(sub)
    /\ pc' = "idle"
    /\ via' = "think"
    /\ outcome' = "raised"
    /\ faulted' = TRUE
    /\ UNCHANGED <<state, dali_depth, no_dali_count, previous_action,
                   action, log, replays, last_reply, consult_depth, skipped>>
    /\ UNCHANGED others

\* the comparison reading only the first digit of the addressee
NotForMeFirstDigit(msg) == IntOf(SubSeq(Before(msg), 1, 1)) # Port

\* name != self._port
NotForMe(msg) == IntOf(Before(msg)) # Port

\* the action is not meant for me: continue
ReceiveOther ==
    /\ Listening
    /\ Head(sub).type = "message"
    /\ ~Raises(Head(sub).data)
    /\ NotForMe(Head(sub).data)
    /\ sub' = Tail(sub)
    /\ skipped' = TRUE
    /\ UNCHANGED <<state, dali_depth, no_dali_count, previous_action, pc, via,
                   action, log, outcome, replays, last_reply, consult_depth, faulted>>
    /\ UNCHANGED others

\* decision returns the action; think (or ground_decision and think) finishes
ReceiveMine ==
    /\ Listening
    /\ Head(sub).type = "message"
    /\ ~Raises(Head(sub).data)
    /\ ~NotForMe(Head(sub).data)
    /\ sub' = Tail(sub)
    /\ action' = <<After(Head(sub).data)>>
    /\ previous_action' = IF via = "think" THEN <<After(Head(sub).data)>> ELSE previous_action
    /\ no_dali_count' = IF via = "think" THEN no_dali_count ELSE no_dali_count + 1
    /\ pc' = "idle"
    /\ via' = "think"
    /\ outcome' = "consulted"
    /\ last_reply' = <<After(Head(sub).data)>>
    /\ UNCHANGED <<state, dali_depth, log, replays, consult_depth, skipped, faulted>>
    /\ UNCHANGED others

Receive == ReceiveNotice \/ ReceiveRaise \/ ReceiveOther \/ ReceiveMine

(***************************************************************************)
(* The bus: somebody publishes on the topic; redis queues the item for the *)
(* subscriber, whether or not it is listening.                             *)
(***************************************************************************)
Deliver(item) ==
    /\ Len(sub) < MaxSub
    /\ sub' = Append(sub, item)
    /\ UNCHANGED <<state, dali_depth, no_dali_count, previous_action, pc, via,
                   action, log, outcome, replays, last_reply, consult_depth, skipped, faulted>>
    /\ UNCHANGED others

\* every reading, the plain traffic
Next ==
    \/ \E reading \in Readings : ThinkConsult(reading)
    \/ \E reading \in Readings : ThinkGroundConsult(reading)
    \/ \E reading \in Readings : ThinkReplay(reading)
    \/ ReceiveNotice
    \/ ReceiveRaise
    \/ ReceiveOther
    \/ ReceiveMine
    \/ \E item \in PlainItems : Deliver(item)

Spec == Init /\ [][Next]_vars

\* a unit standing still, every kind of traffic
NextBus ==
    \/ \E reading \in StillReadings : ThinkConsult(reading)
    \/ \E reading \in StillReadings : ThinkGroundConsult(reading)
    \/ \E reading \in StillReadings : ThinkReplay(reading)
    \/ ReceiveNotice
    \/ ReceiveRaise
    \/ ReceiveOther
    \/ ReceiveMine
    \/ \E item \in Items : Deliver(item)

SpecBus == Init /\ [][NextBus]_vars

(***************************************************************************)
(* The functions of the program applied on their own, to arguments drawn   *)
(* from bounded sets.                                                      *)
(***************************************************************************)
(***************************************************************************)
(* Redis2LINDA.makeAtomic: eleven replacements, one after the other.       *)
(***************************************************************************)
\* s.replace(old, new): every occurrence
Replace(s, old, new) == [i \in 1..Len(s) |-> IF s[i] = old THEN new ELSE s[i]]

\* makeAtomic leaving the colon alone
makeAtomicNoColon(s) ==
    Replace(Replace(Replace(Replace(Replace(Replace(Replace(Replace(Replace(Replace(s,
        "(", "A"), ")", "B"), "[", "C"), "]", "D"), ".", "E"), ",", "F"), "/", "G"), "\\", "H"), "'", "I"), " ", "O")

makeAtomic(s) ==
    Replace(Replace(Replace(Replace(Replace(Replace(Replace(Replace(Replace(Replace(Replace(s,
        "(", "A"), ")", "B"), "[", "C"), "]", "D"), ".", "E"), ",", "F"), "/", "G"), "\\", "H"), "'", "I"), " ", "O"), ":", "J")

(***************************************************************************)
(* World.act: the commands given to the unit and how the call ends.        *)
(***************************************************************************)
\* self._turning_speed, in tenths
TurningSpeed == 15

VerbStop == <<"s", "t", "o", "p">>

VerbUnload == <<"u", "n", "l", "o", "a", "d">>

VerbLoadup == <<"l", "o", "a", "d", "u", "p">>

VerbGo == <<"g", "o">>

VerbRight == <<"r", "i", "g", "h", "t">>

VerbLeft == <<"l", "e", "f", "t">>

VerbJump == <<"j", "u", "m", "p">>

\* the texts act is applied to: the six kinds of action, and texts that are none
ActTexts ==
    {VerbStop, VerbUnload, VerbLoadup,
     VerbGo \o <<":", "2">>, VerbRight \o <<":", "9">>, VerbLeft \o <<":", "9">>,
     VerbJump, VerbGo, <<>>,
     VerbJump \o <<":", "3">>, VerbStop \o <<":", "3">>,
     VerbGo \o <<":", "x">>, VerbGo \o <<":">>, VerbGo \o <<":", "2", ":", "3">>,
     VerbJump \o <<":", "x">>}

\* turn commands the wheels only while the angle turned is below the angle asked
turn(speedr, speedl, angle) == IF angle > 0 THEN << <<"turn", speedr, speedl, angle>> >> ELSE <<>>

act(text) ==
    IF ~HasColon(text)
    THEN CASE text = VerbStop -> [cmds |-> << <<"stop">> >>, result |-> "returned"]
           [] text = VerbUnload -> [cmds |-> << <<"stop">>, <<"unload">> >>, result |-> "returned"]
           [] text = VerbLoadup -> [cmds |-> << <<"stop">>, <<"loadup">> >>, result |-> "returned"]
           [] OTHER -> [cmds |-> <<>>, result |-> "TypeError"]
    ELSE IF ~IsInt(After(text))
         THEN [cmds |-> <<>>, result |-> "ValueError"]
         ELSE CASE Before(text) = VerbGo ->
                       [cmds |-> << <<"go", IntOf(After(text))>> >>, result |-> "returned"]
                [] Before(text) = VerbRight ->
                       [cmds |-> turn(0, TurningSpeed, IntOf(After(text))), result |-> "returned"]
                [] Before(text) = VerbLeft ->
                       [cmds |-> turn(TurningSpeed, 0, IntOf(After(text))), result |-> "returned"]
                [] OTHER -> [cmds |-> <<>>, result |-> "returned"]

ActCalls == {[fn |-> "act", args |-> <<text>>, out |-> <<>>] : text \in ActTexts}

States == {new_state(reading) : reading \in Readings}

\* compare_states(old_state, new_state) with self._dali_depth = ref; a Brain
\* keeps its state's depth less than the hysteresis away from _dali_depth
CompareCalls ==
    {[fn |-> "compare_states", args |-> a, out |-> <<>>] :
        a \in {b \in States \X States \X Depths : Abs(b[1].depth - b[3]) < Hysteresis}}

MaxLen == 3

\* the eleven characters makeAtomic replaces, and other characters, some of
\* them letters makeAtomic writes
AtomAlphabet == {"(", ")", "[", "]", ".", ",", "/", "\\", "'", " ", ":", "a", "A", "J"}

AtomTexts == UNION {[1..n -> AtomAlphabet] : n \in 0..MaxLen}

AtomCalls == {[fn |-> "makeAtomic", args |-> <<text>>, out |-> <<>>] : text \in AtomTexts}

\* self._agent_name + ':' + message, the frame a Brain publishes
FormatOutbound(addressee, payload) == addressee \o <<":">> \o payload

\* the frame split at its last colon
ParseFrameLast(msg) ==
    LET last == CHOOSE i \in 1..Len(msg) : msg[i] = ":" /\ \A j \in (i + 1)..Len(msg) : msg[j] # ":"
    IN  <<SubSeq(msg, 1, last - 1), SubSeq(msg, last + 1, Len(msg))>>

\* the relay's split: msg[:separator] and msg[separator+1:]
ParseFrame(msg) == <<Before(msg), After(msg)>>

\* addressees hold no colon, payloads may
Addressees == UNION {[1..n -> {"t", "1"}] : n \in 0..MaxLen}

Payloads == UNION {[1..n -> {"t", "1", ":"}] : n \in 0..MaxLen}

FrameCalls ==
    {[fn |-> "frame", args |-> <<addressee, payload>>, out |-> <<>>] :
        addressee \in Addressees, payload \in Payloads}

\* a red blob ahead, half a metre of free way, nothing loaded
StateRedCenter == [color |-> "red", position |-> "center", depth |-> 50, load |-> "empty"]

\* decision building its message from self._state
MessageCalls == {[fn |-> "message", args |-> <<s>>, out |-> <<>>] : s \in States \cup {StateRedCenter}}

PureCalls == CompareCalls \cup ActCalls \cup AtomCalls \cup FrameCalls \cup MessageCalls

\* what the function called returns
Result(c) ==
    CASE c.fn = "compare_states" -> compare_states(c.args[1], c.args[2], c.args[3])
      [] c.fn = "act" -> act(c.args[1])
      [] c.fn = "makeAtomic" -> makeAtomic(c.args[1])
      [] c.fn = "message" -> message(c.args[1])
      [] c.fn = "frame" -> ParseFrame(FormatOutbound(c.args[1], c.args[2]))

InitPure ==
    /\ BrainInit
    /\ relay = NoRelay
    /\ agents = NoAgents
    /\ call \in PureCalls

Eval ==
    /\ call.fn # "none"
    /\ call.out = <<>>
    /\ call' = [call EXCEPT !.out = <<Result(call)>>]
    /\ UNCHANGED <<state, dali_depth, no_dali_count, previous_action, sub, pc, via,
                   action, log, outcome, replays, last_reply, consult_depth, skipped,
                   faulted, relay, agents>>

NextPure == Eval

SpecPure == InitPure /\ [][NextPure]_vars

(***************************************************************************)
(* Several Brains on one topic.  Each Brain has its own redis client and   *)
(* its own subscription to "fromMAS": redis hands every subscriber its own *)
(* copy of every frame published, and each Brain reads its copies at its   *)
(* own pace, in decision.  bus is the sequence of frames published so far. *)
(***************************************************************************)
MaxBus == 3

\* two agents, the id of one a prefix of the id of the other
Ports == {Port, 10 * Port + 2}

MultiFrames == {FrameStop, FrameOther, FrameNoColon}

\* asked: the frames published on the topic when the Brain last published its
\* facts; taken: the frames it has read; got: the place on the topic of the
\* frame its last action came from
NewAgent ==
    [pc |-> "idle", sub |-> <<Notice>>, action |-> <<>>, returned |-> <<>>, discarded |-> <<>>,
     asked |-> 0, taken |-> 0, got |-> 0]

InitMulti ==
    /\ BrainInit
    /\ call = NoCall
    /\ relay = NoRelay
    /\ agents = [bus |-> <<>>, brain |-> [port \in Ports |-> NewAgent]]

Brains == <<state, dali_depth, no_dali_count, previous_action, sub, pc, via,
            action, log, outcome, replays, last_reply, consult_depth, skipped,
            faulted, call, relay>>

\* the comparison reading only the first digit of the addressee
NotForFirstDigit(port, msg) == IntOf(SubSeq(Before(msg), 1, 1)) # port

\* name != self._port, in the Brain of that port
NotFor(port, msg) == IntOf(Before(msg)) # port

\* think reaches decision: the Brain publishes its facts and listens
AgentConsult(port) ==
    /\ agents.brain[port].pc = "idle"
    /\ agents' = [agents EXCEPT !.brain[port].pc = "listen", !.brain[port].action = <<>>,
                                !.brain[port].asked = Len(agents.bus)]
    /\ UNCHANGED Brains

\* item['type'] == 'message' fails
AgentNotice(port) ==
    /\ agents.brain[port].pc = "listen"
    /\ agents.brain[port].sub # <<>>
    /\ Head(agents.brain[port].sub).type # "message"
    /\ agents' = [agents EXCEPT !.brain[port].sub = Tail(@)]
    /\ UNCHANGED Brains

\* ValueError out of decision and think
AgentRaise(port) ==
    /\ agents.brain[port].pc = "listen"
    /\ agents.brain[port].sub # <<>>
    /\ Head(agents.brain[port].sub).type = "message"
    /\ Raises(Head(agents.brain[port].sub).data)
    /\ agents' = [agents EXCEPT !.brain[port].sub = Tail(@), !.brain[port].pc = "idle",
                                !.brain[port].taken = @ + 1]
    /\ UNCHANGED Brains

\* continue
AgentOther(port) ==
    /\ agents.brain[port].pc = "listen"
    /\ agents.brain[port].sub # <<>>
    /\ Head(agents.brain[port].sub).type = "message"
    /\ ~Raises(Head(agents.brain[port].sub).data)
    /\ NotFor(port, Head(agents.brain[port].sub).data)
    /\ agents' = [agents EXCEPT !.brain[port].sub = Tail(@),
                                !.brain[port].discarded = Append(@, Head(agents.brain[port].sub).data),
                                !.brain[port].taken = @ + 1]
    /\ UNCHANGED Brains

\* return action
AgentMine(port) ==
    /\ agents.brain[port].pc = "listen"
    /\ agents.brain[port].sub # <<>>
    /\ Head(agents.brain[port].sub).type = "message"
    /\ ~Raises(Head(agents.brain[port].sub).data)
    /\ ~NotFor(port, Head(agents.brain[port].sub).data)
    /\ agents' = [agents EXCEPT !.brain[port].sub = Tail(@),
                                !.brain[port].pc = "idle",
                                !.brain[port].action = <<After(Head(agents.brain[port].sub).data)>>,
                                !.brain[port].returned = Append(@, Head(agents.brain[port].sub).data),
                                !.brain[port].taken = @ + 1,
                                !.brain[port].got = agents.brain[port].taken + 1]
    /\ UNCHANGED Brains

\* somebody publishes a frame on the topic: one copy for each subscriber
Broadcast(frame) ==
    /\ Len(agents.bus) < MaxBus
    /\ agents' = [bus |-> Append(agents.bus, frame),
                  brain |-> [port \in Ports |->
                      [agents.brain[port] EXCEPT !.sub = Append(@, [type |-> "message", data |-> frame])]]]
    /\ UNCHANGED Brains

NextMulti ==
    \/ \E port \in Ports : AgentConsult(port)
    \/ \E port \in Ports : AgentNotice(port)
    \/ \E port \in Ports : AgentRaise(port)
    \/ \E port \in Ports : AgentOther(port)
    \/ \E port \in Ports : AgentMine(port)
    \/ \E frame \in MultiFrames : Broadcast(frame)

SpecMulti == InitMulti /\ [][NextMulti]_vars

(***************************************************************************)
(* Redis2LINDA: the relay between the channel the Brains publish on and    *)
(* the reasoning engine.                                                   *)
(***************************************************************************)
MaxRelay == 3

\* frames on "LINDAchannel": facts for an agent, a payload with a colon, an
\* empty addressee, an empty payload, and a frame without a colon
RelayFrames ==
    {<<"t", ":", "v", "(", "r", ",", "c", ")", ".">>,
     <<"t", ":", "a", ":", " ", "b">>,
     <<":", "x">>,
     <<"t", ":">>,
     <<"s", "t", "o", "p">>}

InitRelay ==
    /\ BrainInit
    /\ call = NoCall
    /\ agents = NoAgents
    /\ relay = [pc |-> "listen", channel |-> <<Notice>>, sent |-> <<>>, read |-> <<>>, published |-> 0]

NoRelaying == <<state, dali_depth, no_dali_count, previous_action, sub, pc, via,
                action, log, outcome, replays, last_reply, consult_depth, skipped,
                faulted, call, agents>>

\* the message forwarded with the addressee atomized into the term as well
ForwardWhole(msg) ==
    [to |-> Before(msg), term |-> <<"r", "e", "d", "i", "s", "(">> \o makeAtomic(msg) \o <<")">>]

\* L.send_message(addressee, "redis(" + atomic + ")")
Forward(msg) ==
    [to |-> Before(msg), term |-> <<"r", "e", "d", "i", "s", "(">> \o makeAtomic(After(msg)) \o <<")">>]

\* a Brain publishes a frame on the channel
RelayPublish(frame) ==
    /\ relay.pc = "listen"
    /\ relay.published < MaxRelay
    /\ relay' = [relay EXCEPT !.channel = Append(@, [type |-> "message", data |-> frame]),
                              !.published = @ + 1]
    /\ UNCHANGED NoRelaying

\* item['type'] == 'message' fails
RelayNotice ==
    /\ relay.pc = "listen"
    /\ relay.channel # <<>>
    /\ Head(relay.channel).type # "message"
    /\ relay' = [relay EXCEPT !.channel = Tail(@)]
    /\ UNCHANGED NoRelaying

\* msg.index(':') raises ValueError: the relay ends
RelayRaise ==
    /\ relay.pc = "listen"
    /\ relay.channel # <<>>
    /\ Head(relay.channel).type = "message"
    /\ ~HasColon(Head(relay.channel).data)
    /\ relay' = [relay EXCEPT !.channel = Tail(@),
                              !.read = Append(@, Head(relay.channel).data),
                              !.pc = "dead"]
    /\ UNCHANGED NoRelaying

RelayForward ==
    /\ relay.pc = "listen"
    /\ relay.channel # <<>>
    /\ Head(relay.channel).type = "message"
    /\ HasColon(Head(relay.channel).data)
    /\ relay' = [relay EXCEPT !.channel = Tail(@),
                              !.read = Append(@, Head(relay.channel).data),
                              !.sent = Append(@, Forward(Head(relay.channel).data))]
    /\ UNCHANGED NoRelaying

NextRelay ==
    \/ \E frame \in RelayFrames : RelayPublish(frame)
    \/ RelayNotice
    \/ RelayRaise
    \/ RelayForward

SpecRelay == InitRelay /\ [][NextRelay]_vars

(***************************************************************************)
(* The properties.  What they call a step of think, a change, a reply and  *)
(* a frame for another agent is written here from the frames and the       *)
(* thresholds, not from the operators above.                               *)
(***************************************************************************)
\* a step of think: the agent is not inside a consultation and the step is
\* not a delivery into the subscription
ThinkStep == pc = "idle" /\ sub' = sub

Changed(old, new, ref) ==
    \/ old.color # new.color
    \/ old.position # new.position
    \/ old.load # new.load
    \/ new.depth - ref >= 2
    \/ ref - new.depth >= 2

Stopped(l) == \E i \in 1..Len(l) : l[i] = <<"act", "stop">>

TextStop == <<"s", "t", "o", "p">>

TextGo == <<"g", "o", ":", "2">>

TextLeft == <<"l", "e", "f", "t", ":", "9">>

\* a step of the receive loop that reads the message frame f
Reads(f) == pc = "listen" /\ sub # <<>> /\ sub' = Tail(sub) /\ Head(sub) = [type |-> "message", data |-> f]

\* C1: whenever a cycle sensed a depth <= 0.17, that cycle published a fact
\* bundle (it consulted the reasoning engine), changed or not, whatever the
\* impulse count.
C1_SafetyOverride ==
    (state # <<>> /\ state[1].depth <= 17 /\ outcome # "none") => Published(log)

\* a cycle that consulted from ground_decision: unchanged, at depth <= 0.17
C1_Witness ==
    ~faulted /\ state # <<>> /\ state[1].depth <= 17 /\ Published(log) /\ ~Stopped(log) /\ outcome = "consulted"

\* C2 as stated: at most five consecutive replays happen between two
\* consultations (the sixth unchanged, not-near cycle consults); looked at
\* only while no think has ended in an error.
C2_Original == ~faulted => replays <= 5

\* C2 as amended: at most six consecutive replays happen between two
\* consultations, and the cycle after six replays consults.
C2_ImpulseOverflow ==
    /\ [](replays <= 6)
    /\ [][(ThinkStep /\ replays = 6) => (Published(log') /\ replays' = 0)]_vars

\* six replays in a row
C2_Witness == ~faulted /\ replays = 6 /\ outcome = "replayed"

\* C3: a frame addressed to the agent ends the consultation, which returns
\* the text after the first ':'; a frame addressed to another agent is
\* discarded, the agent goes on listening, and its text is never returned.
C3_AddresseeFiltering ==
    /\ [][Reads(FrameStop) => (pc' = "idle" /\ outcome' = "consulted" /\ action' = <<TextStop>>)]_vars
    /\ [][Reads(FrameGo) => (pc' = "idle" /\ outcome' = "consulted" /\ action' = <<TextGo>>)]_vars
    /\ [][Reads(FrameOther) => (pc' = "listen" /\ outcome' = "running" /\ action' = <<>>
                                  /\ previous_action' = previous_action)]_vars
    /\ [](action # <<TextLeft>> /\ previous_action # <<TextLeft>>)
    /\ [](outcome = "consulted" => action \in {<<TextStop>>, <<TextGo>>})

\* a consultation that discarded another agent's frame and then returned
C3_Witness == ~faulted /\ outcome = "consulted" /\ skipped /\ action = <<TextGo>>

\* C4 as stated: a frame with no ':' or with an addressee that is no
\* integer is skipped and the agent stays in the receive loop.
C4_MalformedSkipped ==
    [][(~faulted /\ (Reads(FrameNoColon) \/ Reads(FrameNoInt))) => (pc' = "listen" /\ outcome' = "running")]_vars

\* C5 as stated: the impulse counter is always in 0..5; looked at only
\* while no think has ended in an error.
C5_Original == ~faulted => no_dali_count \in 0..5

\* C5 as amended: the impulse counter is always in 0..6.
C5_CounterRange == no_dali_count \in 0..6

\* the counter at 6
C5_Witness == ~faulted /\ no_dali_count = 6

\* C6 as stated: at the end of a cycle that consulted the reasoning engine
\* the impulse counter is 0; looked at only while no think has ended in an
\* error.
C6_ResetOnConsult == (~faulted /\ outcome = "consulted") => no_dali_count = 0

\* C7 as stated: every publication of a fact bundle comes after a 'stop'
\* given to the actuator in the same cycle; looked at only while no think
\* has ended in an error.
C7_HaltBeforeConsult ==
    ~faulted => \A i \in 1..Len(log) : log[i][1] = "publish" => \E j \in 1..(i - 1) : log[j] = <<"act", "stop">>

\* C8 as stated: a replay returns the reply of the most recent
\* consultation; looked at only while no think has ended in an error.
C8_ReplayLastReply == (~faulted /\ outcome = "replayed") => action = last_reply

\* C9 as stated: a cycle replays only if the state is not changed, the
\* counter is <= 5, the depth is > 0.17 and the position is not 'near';
\* looked at only while no think has ended in an error.
C9_Original ==
    [][(ThinkStep /\ ~faulted /\ outcome' = "replayed") =>
          /\ state # <<>>
          /\ ~Changed(state[1], state'[1], dali_depth[1])
          /\ no_dali_count <= 5
          /\ state'[1].depth > 17
          /\ state'[1].position # "near"]_vars

\* C9 as amended: a cycle replays only if the state is not changed, the
\* counter is <= 5 and the depth is > 0.17.
C9_ReplayConditions ==
    [][(ThinkStep /\ outcome' = "replayed") =>
          /\ state # <<>>
          /\ ~Changed(state[1], state'[1], dali_depth[1])
          /\ no_dali_count <= 5
          /\ state'[1].depth > 17]_vars

\* a replay with the position 'near'
C9_Witness == ~faulted /\ outcome = "replayed" /\ state[1].position = "near"

\* C10: from the first cycle on dali_depth is the depth of the state of the
\* most recent consultation; a replay leaves it unchanged; a cycle whose
\* depth is 0.02 or more away from it consults.
C10_ReferenceDepth ==
    /\ [](state # <<>> => (dali_depth # <<>> /\ dali_depth = consult_depth))
    /\ [][(ThinkStep /\ outcome' = "replayed") => dali_depth' = dali_depth]_vars
    /\ [][(ThinkStep /\ state # <<>> /\ (state'[1].depth - consult_depth[1] >= 2
                                            \/ consult_depth[1] - state'[1].depth >= 2))
             => (Published(log') /\ dali_depth' = <<state'[1].depth>>)]_vars

\* a replay at a depth that is not the reference depth
C10_Witness == ~faulted /\ outcome = "replayed" /\ state[1].depth # dali_depth[1]

\* the arguments and the result of a finished call of fn
Called(fn) == call.fn = fn /\ call.out # <<>>

SameButDepth(old, new) == old.color = new.color /\ old.position = new.position /\ old.load = new.load

\* C11 as stated: compare_states is false for two states that differ only
\* in depth, by less than 0.02, and true when they differ in depth by 0.02
\* or more.
C11_Original ==
    (Called("compare_states") /\ SameButDepth(call.args[1], call.args[2])) =>
        call.out[1] = (call.args[2].depth - call.args[1].depth >= 2 \/ call.args[1].depth - call.args[2].depth >= 2)

\* C11 as amended: for two states that differ only in depth, compare_states
\* is false when the new depth is less than 0.02 away from dali_depth and
\* true when it is 0.02 or more away; the old state's depth plays no part.
C11_Hysteresis ==
    (Called("compare_states") /\ SameButDepth(call.args[1], call.args[2])) =>
        call.out[1] = (call.args[2].depth - call.args[3] >= 2 \/ call.args[3] - call.args[2].depth >= 2)

\* a new depth exactly 0.02 away from dali_depth and 0.01 away from the old depth
C11_Witness ==
    /\ Called("compare_states")
    /\ SameButDepth(call.args[1], call.args[2])
    /\ call.args[2].depth - call.args[3] = 2
    /\ call.args[2].depth - call.args[1].depth = 1
    /\ call.out[1] = TRUE

Routable(text) ==
    \/ text \in {<<"s", "t", "o", "p">>, <<"u", "n", "l", "o", "a", "d">>, <<"l", "o", "a", "d", "u", "p">>}
    \/ \E verb \in {<<"g", "o">>, <<"r", "i", "g", "h", "t">>, <<"l", "e", "f", "t">>}, d \in 1..Len(Digits) :
            text = verb \o <<":", Digits[d]>>

\* C13: World.act applied to a text that is no routable action raises an
\* error and commands nothing; it never returns normally having done
\* nothing.
C13_UnroutableRaises ==
    (Called("act") /\ ~Routable(call.args[1])) =>
        (call.out[1].result # "returned" /\ call.out[1].cmds = <<>>)

\* the frame at the head of the subscription is addressed to agent 1
HeadAddressedToMe ==
    /\ sub # <<>>
    /\ Head(sub).type = "message"
    /\ HasColon(Head(sub).data)
    /\ IsInt(Before(Head(sub).data))
    /\ IntOf(Before(Head(sub).data)) = 1

\* C14: an agent that has published its facts stays in the consultation,
\* commanding and publishing nothing, until it receives a frame addressed
\* to its id; nothing else ends the wait.
C14_BlocksUntilAddressed ==
    [][(pc = "listen" /\ ~faulted) =>
        (/\ log' = log
         /\ (pc' # "listen" => (HeadAddressedToMe /\ sub' = Tail(sub))))]_vars

\* the frames of a sequence addressed to the agent with that id
RECURSIVE AddressedTo(_, _)
AddressedTo(id, frames) ==
    IF frames = <<>> THEN <<>>
    ELSE IF HasColon(Head(frames)) /\ IsInt(Before(Head(frames))) /\ IntOf(Before(Head(frames))) = id
         THEN <<Head(frames)>> \o AddressedTo(id, Tail(frames))
         ELSE AddressedTo(id, Tail(frames))

\* the frames waiting in a subscription
RECURSIVE Waiting(_)
Waiting(items) ==
    IF items = <<>> THEN <<>>
    ELSE IF Head(items).type = "message"
         THEN <<Head(items).data>> \o Waiting(Tail(items))
         ELSE Waiting(Tail(items))

\* C15: with two agents on the topic, every action an agent returns comes
\* from a frame addressed to its id, and the frames addressed to an agent
\* are, in order, those it has returned followed by those still waiting in
\* its own subscription: a frame another agent discards is not lost to it.
C15_Isolation ==
    agents # <<>> =>
        \A id \in {1, 12} :
            /\ AddressedTo(id, agents.brain[id].returned) = agents.brain[id].returned
            /\ AddressedTo(id, agents.brain[id].discarded) = <<>>
            /\ (agents.brain[id].action # <<>> =>
                    /\ agents.brain[id].returned # <<>>
                    /\ agents.brain[id].action =
                           <<After(agents.brain[id].returned[Len(agents.brain[id].returned)])>>)
            /\ AddressedTo(id, agents.bus) =
                   agents.brain[id].returned \o AddressedTo(id, Waiting(agents.brain[id].sub))

\* agent 1 has discarded the frame of agent 12, and agent 12 has returned it
C15_Witness ==
    /\ agents # <<>>
    /\ agents.brain[1].discarded = <<FrameOther>>
    /\ agents.brain[1].returned = <<FrameStop>>
    /\ agents.brain[12].discarded = <<FrameStop>>
    /\ agents.brain[12].returned = <<FrameOther>>
    /\ agents.brain[12].action = <<TextLeft>>

\* the message is what the relay owes the frame: addressed to the text
\* before the first colon, its term wrapping the atomized rest
Relayed(frame, m) ==
    \E k \in 1..Len(frame) :
        /\ frame[k] = ":"
        /\ \A j \in 1..(k - 1) : frame[j] # ":"
        /\ m.to = SubSeq(frame, 1, k - 1)
        /\ m.term = <<"r", "e", "d", "i", "s", "(">> \o makeAtomic(SubSeq(frame, k + 1, Len(frame))) \o <<")">>

\* the frames of a sequence that hold a colon
RECURSIVE WithColon(_)
WithColon(frames) ==
    IF frames = <<>> THEN <<>>
    ELSE IF \E k \in 1..Len(Head(frames)) : Head(frames)[k] = ":"
         THEN <<Head(frames)>> \o WithColon(Tail(frames))
         ELSE WithColon(Tail(frames))

\* C16: the relay sends one message for each frame with a colon it
\* receives, in the order received, addressed to the text before the first
\* colon, the term wrapping makeAtomic of the text after it.
C16_RelayContract ==
    relay.pc # "off" =>
        /\ Len(relay.sent) = Len(WithColon(relay.read))
        /\ \A i \in 1..Len(relay.sent) : Relayed(WithColon(relay.read)[i], relay.sent[i])

\* a payload with a colon forwarded after a frame of facts
C16_Witness ==
    /\ relay.pc = "listen"
    /\ Len(relay.sent) = 2
    /\ relay.read[1] = <<"t", ":", "v", "(", "r", ",", "c", ")", ".">>
    /\ relay.sent[1].term = <<"r", "e", "d", "i", "s", "(", "v", "A", "r", "F", "c", "B", "E", ")">>
    /\ relay.sent[2] = [to |-> <<"t">>, term |-> <<"r", "e", "d", "i", "s", "(", "a", "J", "O", "b", ")">>]

Reserved == {"(", ")", "[", "]", ".", ",", "/", "\\", "'", " ", ":"}

\* the letter that stands for a reserved character
Placeholder(c) ==
    CASE c = "(" -> "A" [] c = ")" -> "B" [] c = "[" -> "C" [] c = "]" -> "D"
      [] c = "." -> "E" [] c = "," -> "F" [] c = "/" -> "G" [] c = "\\" -> "H"
      [] c = "'" -> "I" [] c = " " -> "O" [] c = ":" -> "J"

\* C17: makeAtomic(s) is as long as s, holds none of the eleven reserved
\* characters, has at each position of a reserved character its letter
\* (A B C D E F G H I O J) and at every other position the character of s.
C17_Atomization ==
    Called("makeAtomic") =>
        /\ Len(call.out[1]) = Len(call.args[1])
        /\ \A i \in 1..Len(call.args[1]) :
              /\ call.out[1][i] \notin Reserved
              /\ call.out[1][i] = IF call.args[1][i] \in Reserved
                                  THEN Placeholder(call.args[1][i])
                                  ELSE call.args[1][i]

\* a colon, a letter J and a parenthesis
C17_Witness ==
    /\ Called("makeAtomic")
    /\ call.args[1] = <<":", "J", "(">>
    /\ call.out[1] = <<"J", "J", "A">>

\* C18: the frame addressee + ':' + payload, the addressee without a colon,
\* split at its first colon gives back the addressee and the payload,
\* whether or not the payload holds colons.
C18_FrameRoundTrip ==
    Called("frame") => call.out[1] = <<call.args[1], call.args[2]>>

\* a payload with a colon in the middle
C18_Witness ==
    /\ Called("frame")
    /\ call.args = << <<"t", "1">>, <<"1", ":", "t">> >>
    /\ call.out[1] = << <<"t", "1">>, <<"1", ":", "t">> >>

\* C19: the facts published in a consultation are those of the state
\* sensed in the same cycle: its color and position, its load, the agent's
\* name, and the depth as near exactly when the state's depth is <= 0.17
\* or its position is near, as far otherwise.
C19_FactBundle ==
    \A i \in 1..Len(log) :
        log[i][1] = "publish" =>
            /\ log[i][2] = state[1]
            /\ message(log[i][2])[2] = <<"vision", state[1].color, state[1].position>>
            /\ message(log[i][2])[3] =
                  <<"depth", IF state[1].depth <= 17 \/ state[1].position = "near" THEN "near" ELSE "far">>
            /\ message(log[i][2])[4] = <<"load", state[1].load>>
            /\ message(log[i][2])[5] = <<"agentname", "1", ":">>

\* facts published for a state near by position only, after a cycle that
\* had sensed something else
C19_Witness ==
    /\ ~faulted
    /\ Published(log)
    /\ last_reply # <<>>
    /\ state[1].depth > 17
    /\ state[1].position = "near"
    /\ message(state[1])[3] = <<"depth", "near">>

\* the place of a fact in a message
FactAt(m, fact) == CHOOSE i \in 1..Len(m) : m[i] = fact

HasFact(m, fact) == \E i \in 1..Len(m) : m[i] = fact

RedCenterCalled ==
    /\ Called("message")
    /\ call.args[1] = [color |-> "red", position |-> "center", depth |-> 50, load |-> "empty"]

RedCenterFacts ==
    /\ HasFact(call.out[1], <<"dynamic">>)
    /\ HasFact(call.out[1], <<"depth", "far">>)
    /\ HasFact(call.out[1], <<"vision", "red", "center">>)
    /\ HasFact(call.out[1], <<"load", "empty">>)

\* C20 as stated: for the state red, center, 0.5, empty the message holds,
\* after the directives, depth(far). before vision(red,center). before
\* load(empty).
C20_Original ==
    RedCenterCalled =>
        /\ RedCenterFacts
        /\ FactAt(call.out[1], <<"dynamic">>) < FactAt(call.out[1], <<"depth", "far">>)
        /\ FactAt(call.out[1], <<"depth", "far">>) < FactAt(call.out[1], <<"vision", "red", "center">>)
        /\ FactAt(call.out[1], <<"vision", "red", "center">>) < FactAt(call.out[1], <<"load", "empty">>)

\* C20 as amended: for the state red, center, 0.5, empty the message holds,
\* after the directives, vision(red,center). before depth(far). before
\* load(empty)., the agentname fact last.
C20_FactOrder ==
    RedCenterCalled =>
        /\ RedCenterFacts
        /\ FactAt(call.out[1], <<"dynamic">>) < FactAt(call.out[1], <<"vision", "red", "center">>)
        /\ FactAt(call.out[1], <<"vision", "red", "center">>) < FactAt(call.out[1], <<"depth", "far">>)
        /\ FactAt(call.out[1], <<"depth", "far">>) < FactAt(call.out[1], <<"load", "empty">>)
        /\ FactAt(call.out[1], <<"load", "empty">>) < FactAt(call.out[1], <<"agentname", "1", ":">>)

\* the message built for that state
C20_Witness ==
    /\ RedCenterCalled
    /\ Len(call.out[1]) = 5
    /\ call.out[1][2] = <<"vision", "red", "center">>
    /\ call.out[1][3] = <<"depth", "far">>

\* C21: state, counter and last action are replaced together: whenever a
\* think call has finished, by returning or by an error raised in the
\* consultation, the Brain holds either the three values it was built with
\* or three values of finished cycles; a state sensed is never held next to
\* the last action of before that cycle.
C21_AtomicTriple ==
    pc = "idle" => ((state = <<>>) <=> (previous_action = <<>>))

\* the bundles published in the cycle
Bundles(l) == Cardinality({i \in 1..Len(l) : l[i][1] = "publish"})

\* C22: a think cycle publishes at most one bundle, and a Brain is never
\* in a consultation while an earlier consultation of its own has ended
\* without a reply consumed: bundles published minus replies consumed is 0
\* or 1.  (faulted: some consultation has ended without its reply.)
C22_OneOutstanding ==
    /\ Bundles(log) <= 1
    /\ ~(faulted /\ pc = "listen")

\* C23: the action a consultation returns comes from a frame published on
\* the topic after the Brain published the facts of that consultation,
\* never from a frame that was waiting in its subscription from before.
C23_NoStaleReply ==
    \A id \in {1, 12} :
        agents.brain[id].action # <<>> => agents.brain[id].got > agents.brain[id].asked

====
